---- MODULE Spec2Model ----
(***************************************************************************)
(* Unequal probability sampling designs (src/src/unequal.rs) and the       *)
(* Deville variance estimator (src/envisim_estimate/src/                   *)
(* horvitz_thompson.rs).                                                   *)
(*                                                                         *)
(* Numbers.  An f64 is modelled as an exact rational <<num, den>> with     *)
(* den > 0 in lowest terms, or one of the IEEE special values              *)
(* <<1, 0>> (+inf), <<-1, 0>> (-inf), <<0, 0>> (NaN).  Arithmetic is       *)
(* exact (no rounding); division by an exact zero gives an infinity of     *)
(* the numerator's sign and 0/0 gives NaN, as IEEE-754 division by +0.0    *)
(* does (every divisor of the modelled code that can be zero is the        *)
(* result of a sum that starts at 0.0 or of a subtraction x - x, both of   *)
(* which are +0.0).  Probabilities and uniform variates are drawn from     *)
(* the grid of multiples of 1/D.  A value that several branches of an      *)
(* action use is bound once, as \E x \in {e}.                              *)
(***************************************************************************)
EXTENDS Integers, Sequences, FiniteSets

\* ------------------------------------------------------------------ bounds
\* Largest population size N of draw, with_replacement, sampford and pareto.
MaxN == 3
\* Grid denominator: probabilities and variates are multiples of 1/D.
D == 5
\* Largest population size of a brewer call (two sequential draws need four
\* units on this grid).
MaxBrewerN == 4
\* Largest draw count n of with_replacement.
MaxDraws == 2
\* Largest configured max_iterations of sampford.
MaxIter == 2
\* Largest sample length of deville_variance.
MaxObs == 2
\* Largest observed value y of deville_variance (values are 0..MaxY).
MaxY == 2

\* --------------------------------------------------------------- rationals
Abs(x) == IF x < 0 THEN -x ELSE x
Sgn(x) == IF x < 0 THEN -1 ELSE IF x > 0 THEN 1 ELSE 0

RECURSIVE Gcd(_, _)
Gcd(a, b) == IF b = 0 THEN a ELSE Gcd(b, a % b)

\* The f64 num/den: lowest terms, den > 0, or a special value when den = 0.
RNorm(num, den) ==
    IF den = 0 THEN <<Sgn(num), 0>>
    ELSE LET g == Gcd(Abs(num), Abs(den))
             s == Sgn(den)
         IN  <<(s * num) \div g, (s * den) \div g>>

Zero == <<0, 1>>
One == <<1, 1>>
PInf == <<1, 0>>
NaN == <<0, 0>>
IsNaN(a) == a = NaN
IsSpecial(a) == a[2] = 0
FromInt(k) == <<k, 1>>
\* A grid value of u units, u/D.
FromUnits(u) == RNorm(u, D)

RNeg(a) == <<-a[1], a[2]>>

RAdd(a, b) ==
    IF IsSpecial(a) /\ IsSpecial(b)
    THEN IF IsNaN(a) \/ IsNaN(b) \/ a # b THEN NaN ELSE a
    ELSE IF IsSpecial(a) THEN a
    ELSE IF IsSpecial(b) THEN b
    ELSE LET g == Gcd(a[2], b[2])
         IN  RNorm(a[1] * (b[2] \div g) + b[1] * (a[2] \div g), (a[2] \div g) * b[2])

RSub(a, b) == RAdd(a, RNeg(b))

\* num1/den1 * num2/den2, cancelling across before multiplying.
Times(num1, den1, num2, den2) ==
    LET g == Gcd(Abs(num1), Abs(den2))
        h == Gcd(Abs(num2), Abs(den1))
    IN  IF g = 0 \/ h = 0 THEN RNorm(num1 * num2, den1 * den2)
        ELSE RNorm((num1 \div g) * (num2 \div h), (den1 \div h) * (den2 \div g))

RMul(a, b) == Times(a[1], a[2], b[1], b[2])

\* a / b; a zero divisor counts as +0.0.
RDiv(a, b) ==
    Times(a[1], a[2], b[2] * (IF b[1] < 0 THEN -1 ELSE 1), Abs(b[1]))

\* a <= b and a < b; any comparison with NaN is false.
RLe(a, b) ==
    IF IsNaN(a) \/ IsNaN(b) THEN FALSE
    ELSE IF IsSpecial(a) /\ IsSpecial(b) THEN a[1] <= b[1]
    ELSE a[1] * b[2] <= b[1] * a[2]

RLt(a, b) ==
    IF IsNaN(a) \/ IsNaN(b) THEN FALSE
    ELSE IF IsSpecial(a) /\ IsSpecial(b) THEN a[1] < b[1]
    ELSE a[1] * b[2] < b[1] * a[2]

RAbs(a) == <<Abs(a[1]), a[2]>>

\* f64::round of a finite x >= 0 (half away from zero), as an integer.
Round(a) == (2 * a[1] + a[2]) \div (2 * a[2])

\* envisim_utils::utils::sum, a left fold from 0.0.
RECURSIVE SumTo(_, _)
SumTo(s, k) == IF k = 0 THEN Zero ELSE RAdd(SumTo(s, k - 1), s[k])
sum(s) == SumTo(s, Len(s))

\* Stable ascending sort of a sequence of integers (sort_unstable on usize:
\* equal elements are indistinguishable).
RECURSIVE Insert(_, _)
Insert(s, x) ==
    IF s = <<>> THEN <<x>>
    ELSE IF x < Head(s) THEN <<x>> \o s
    ELSE <<Head(s)>> \o Insert(Tail(s), x)

RECURSIVE SortInts(_)
SortInts(s) == IF s = <<>> THEN <<>> ELSE Insert(SortInts(Tail(s)), Head(s))

\* Ascending sort of a sequence of f64 without NaN (partial_cmp().unwrap()).
RECURSIVE RInsert(_, _)
RInsert(s, x) ==
    IF s = <<>> THEN <<x>>
    ELSE IF RLt(x, Head(s)) THEN <<x>> \o s
    ELSE <<Head(s)>> \o RInsert(Tail(s), x)

RECURSIVE SortRats(_)
SortRats(s) == IF s = <<>> THEN <<>> ELSE RInsert(SortRats(Tail(s)), Head(s))

Range(s) == {s[k] : k \in 1..Len(s)}

\* The ascending sequence of a set of unit ids.
RECURSIVE SeqOfSet(_)
SeqOfSet(S) ==
    IF S = {} THEN <<>>
    ELSE LET m == CHOOSE x \in S : \A y \in S : x <= y
         IN  <<m>> \o SeqOfSet(S \ {m})

\* ------------------------------------------------------------------- state
VARIABLES
    fn,              \* the function called
    probabilities,   \* options.probabilities, in grid units (p = units / D)
    n,               \* with_replacement: the draw count
    max_iterations,  \* options.max_iterations
    y_values,        \* deville_variance: the observed values
    pc,              \* "call", "loop" (sampford, brewer) or "done"
    result,          \* what the call returned
    consumed,        \* variates taken from the random source so far
    draw_arg,        \* the vector of the latest call of draw (<<>>: none yet)
    draw_eligible,   \* brewer: whether the latest draw returned an eligible unit
    attempts,        \* sampford: rejection attempts made
    pois,            \* sampford: the Poisson sample of the latest attempt
    a_unit,          \* sampford, brewer: the unit of the latest draw (-1: none)
    accepted,        \* sampford: whether the latest attempt was accepted
    indices,         \* brewer: the eligible index set
    sample,          \* brewer: the sample under construction
    n_d,             \* brewer: the remaining probability mass
    sample_size,     \* brewer: the number of sequential draws
    step             \* brewer: the loop variable i

vars == <<fn, probabilities, n, max_iterations, y_values, pc, result, consumed,
          draw_arg, draw_eligible, attempts, pois, a_unit, accepted, indices,
          sample, n_d, sample_size, step>>

population_size == Len(probabilities)
\* Unit ids are 0-based as in the source; unit id is position id + 1.
Units == 0..(population_size - 1)
P(id) == FromUnits(probabilities[id + 1])
PVec == [k \in 1..population_size |-> FromUnits(probabilities[k])]

\* options.eps: one and a half grid units, so that no comparison with eps
\* depends on whether it is strict.
eps == RNorm(3, 2 * D)

\* The variates rng.gen::<f64>() can return: the grid points of [0, 1).
RV == {FromUnits(u) : u \in 0..(D - 1)}

\* ----------------------------------------------------- validation (external)
\* Probabilities::check: every entry in [0, 1].
Probabilities_check(ps) ==
    \A k \in 1..Len(ps) : RLe(Zero, ps[k]) /\ RLe(ps[k], One)

\* InputError::check_integer_approx_equal(a, b, eps): a is within eps of b.
check_integer_approx_equal(a, b, e) == RLt(RAbs(RSub(a, b)), e)

\* InputError::check_integer_approx(a, eps): a is within eps of an integer.
check_integer_approx(a, e) ==
    /\ ~IsSpecial(a)
    /\ check_integer_approx_equal(a, FromInt(Round(RAbs(a))), e)

\* Probabilities::check_eps: the tolerance is in [0, 1).
Probabilities_check_eps(e) == RLe(Zero, e) /\ RLt(e, One)

\* InputError::check_lengths
check_lengths(a, b) == Len(a) = Len(b)

\* -------------------------------------------------------------------- draw
\* fn draw: the first index whose running sum psum satisfies rv <= psum,
\* the last index when there is none.
RECURSIVE DrawFrom(_, _, _, _)
DrawFrom(rv, ps, i, psum) ==
    IF i >= Len(ps) THEN Len(ps) - 1
    ELSE LET acc == RAdd(psum, ps[i + 1])
         IN  IF RLe(rv, acc) THEN i ELSE DrawFrom(rv, ps, i + 1, acc)

draw(rv, ps) == DrawFrom(rv, ps, 0, Zero)

\* ------------------------------------------------------------------ results
NoResult == [kind |-> "none", sample |-> <<>>, bound |-> 0, value |-> Zero]
Ok(s) == [kind |-> "ok", sample |-> s, bound |-> 0, value |-> Zero]
OkValue(v) == [kind |-> "ok", sample |-> <<>>, bound |-> 0, value |-> v]
InputErr == [kind |-> "input_error", sample |-> <<>>, bound |-> 0, value |-> Zero]
MaxIterationsErr(b) ==
    [kind |-> "max_iterations", sample |-> <<>>, bound |-> b, value |-> Zero]
\* A panic of the process (an unwrap of an Err).
Panic == [kind |-> "panic", sample |-> <<>>, bound |-> 0, value |-> Zero]

\* ---------------------------------------------------------------- inputs
\* A probability entry, in grid units: the grid of [0, 1] and one value on
\* each side of it.
PValues == (-1)..(D + 1)
PVectors(maxlen) == UNION {[1..len -> PValues] : len \in 1..maxlen}
SumUnits(v) == sum([k \in 1..Len(v) |-> FromInt(v[k])])[1]
\* The vectors draw is specified for: entries in [0, 1] that sum to 1.0.
DrawVectors ==
    {v \in PVectors(MaxN) : (\A k \in 1..Len(v) : v[k] \in 0..D) /\ SumUnits(v) = D}

Idle ==
    /\ pc = "call"
    /\ result = NoResult
    /\ consumed = 0
    /\ draw_arg = <<>>
    /\ draw_eligible = TRUE
    /\ attempts = 0
    /\ pois = <<>>
    /\ a_unit = -1
    /\ accepted = FALSE
    /\ indices = {}
    /\ sample = <<>>
    /\ n_d = Zero
    /\ sample_size = 0
    /\ step = 0

Init ==
    /\ Idle
    /\ \/ /\ fn = "draw"
          /\ probabilities \in DrawVectors
          /\ n = 0 /\ max_iterations = 1 /\ y_values = <<>>
       \/ /\ fn = "with_replacement"
          /\ probabilities \in PVectors(MaxN)
          /\ n \in 0..MaxDraws
          /\ max_iterations = 1 /\ y_values = <<>>
       \/ /\ fn = "sampford"
          /\ probabilities \in PVectors(MaxN)
          /\ max_iterations \in 1..MaxIter
          /\ n = 0 /\ y_values = <<>>
       \/ /\ fn = "pareto"
          /\ probabilities \in PVectors(MaxN)
          /\ n = 0 /\ max_iterations = 1 /\ y_values = <<>>
       \/ /\ fn = "brewer"
          /\ probabilities \in PVectors(MaxBrewerN)
          /\ n = 0 /\ max_iterations = 1 /\ y_values = <<>>

\* A call of deville_variance: the sample's values and probabilities.
InitEstimate ==
    /\ Idle
    /\ fn = "deville_variance"
    /\ probabilities \in PVectors(MaxObs)
    /\ y_values \in UNION {[1..len -> 0..MaxY] : len \in 1..MaxObs}
    /\ n = 0 /\ max_iterations = 1

Inputs == <<fn, probabilities, n, max_iterations, y_values>>
SampfordVars == <<attempts, pois, accepted>>
BrewerVars == <<draw_eligible, indices, sample, n_d, sample_size, step>>

\* A call that returns at once: r is the result, used the variates consumed.
Return(r, used) ==
    /\ pc' = "done"
    /\ result' = r
    /\ consumed' = consumed + used

\* ------------------------------------------------------------ draw (call)
\* One call of draw on a vector that meets its precondition.
DrawCall ==
    /\ fn = "draw" /\ pc = "call"
    /\ \E rv \in RV :
          /\ a_unit' = draw(rv, PVec)
          /\ Return(Ok(<<a_unit'>>), 1)
    /\ draw_arg' = PVec
    /\ UNCHANGED <<Inputs, SampfordVars, BrewerVars>>

\* -------------------------------------------------------- with_replacement
\* The merged pass over the probabilities and the sorted variates rvs,
\* from unit id with running sum psum and variate number k; smp is the
\* sample so far.
RECURSIVE WRPass(_, _, _, _, _, _)
WRPass(ps, rvs, id, psum, k, smp) ==
    IF id >= Len(ps) THEN smp
    ELSE LET upto == RAdd(psum, ps[id + 1])
         IN  IF RLe(upto, rvs[k])
             THEN WRPass(ps, rvs, id + 1, upto, k, smp)
             \* rv < psum + p: the values are finite, so this is the other case
             ELSE IF k = Len(rvs) THEN Append(smp, id)
             ELSE WRPass(ps, rvs, id, psum, k + 1, Append(smp, id))

WRValid(ps) ==
    /\ Probabilities_check(ps)
    /\ check_integer_approx_equal(sum(ps), One, eps)

with_replacement ==
    /\ fn = "with_replacement" /\ pc = "call"
    /\ IF ~WRValid(PVec) THEN Return(InputErr, 0)
       ELSE IF n = 0 THEN Return(Ok(<<>>), 0)
       ELSE \E rvs \in [1..n -> RV] :
               Return(Ok(WRPass(PVec, SortRats(rvs), 0, Zero, 1, <<>>)), n)
    /\ UNCHANGED <<Inputs, draw_arg, a_unit, SampfordVars, BrewerVars>>

\* ---------------------------------------------------------------- sampford
\* DesignValid without Probabilities::check.
DesignValidSumOnly(ps) == check_integer_approx(sum(ps), eps)

\* The validation shared by sampford, pareto and brewer.
DesignValid(ps) ==
    /\ Probabilities_check(ps)
    /\ Probabilities_check_eps(eps)
    /\ check_integer_approx(sum(ps), eps)

\* psum.round() as usize
SampleSize(ps) == Round(sum(ps))

\* poisson::internal (external): one variate per unit, and unit i is taken
\* iff its variate is below p_i.  With variates in [0, 1) the samples it can
\* return are the sets that hold every unit with p_i >= 1 and no unit with
\* p_i <= 0; each is returned ascending.
poisson_internal(ps) ==
    {SeqOfSet(S) : S \in {T \in SUBSET (0..(Len(ps) - 1)) :
                            /\ \A id \in T : RLt(Zero, ps[id + 1])
                            /\ \A id \in (0..(Len(ps) - 1)) \ T : RLt(ps[id + 1], One)}}

\* sample.iter().find(|&&id| id >= a_unit): the first such id, -1 for None.
RECURSIVE Find(_, _)
Find(s, a) ==
    IF s = <<>> THEN -1
    ELSE IF Head(s) >= a THEN Head(s) ELSE Find(Tail(s), a)

\* Accepts without the comparison of the found id with a_unit.
AcceptsAnyFound(s, a) == Find(s, a) # -1

\* The acceptance test of an attempt: .is_some_and(|&id| id != a_unit).
Accepts(s, a) == LET id == Find(s, a) IN id # -1 /\ id # a

norm_probs == LET psum == sum(PVec) IN [k \in 1..population_size |-> RDiv(PVec[k], psum)]

SampfordStart ==
    /\ fn = "sampford" /\ pc = "call"
    /\ IF ~DesignValid(PVec)
       THEN Return(InputErr, 0) /\ UNCHANGED <<draw_arg, a_unit>>
       ELSE IF SampleSize(PVec) = 0
       THEN Return(Ok(<<>>), 0) /\ UNCHANGED <<draw_arg, a_unit>>
       ELSE IF SampleSize(PVec) = 1
       THEN \E rv \in RV :
               /\ a_unit' = draw(rv, PVec)
               /\ draw_arg' = PVec
               /\ Return(Ok(<<a_unit'>>), 1)
       ELSE /\ pc' = "loop"
            /\ UNCHANGED <<result, consumed, draw_arg, a_unit>>
    /\ UNCHANGED <<Inputs, SampfordVars, BrewerVars>>

\* MoreAttempts with an inclusive range, 0..=max_iterations.
MoreAttemptsInclusive == attempts <= max_iterations

\* The loop bound of the rejection loop: 0..options.max_iterations.get().
MoreAttempts == attempts < max_iterations

\* One iteration of the rejection loop.
SampfordAttempt ==
    /\ fn = "sampford" /\ pc = "loop"
    /\ MoreAttempts
    /\ attempts' = attempts + 1
    /\ \E size \in {SampleSize(PVec)}, norm \in {norm_probs} :
          \E s \in poisson_internal(PVec) :
             /\ pois' = s
             /\ IF Len(s) # size - 1
                \* continue: no unit is drawn in this iteration
                THEN /\ consumed' = consumed + population_size
                     /\ a_unit' = -1
                     /\ accepted' = FALSE
                     /\ UNCHANGED <<pc, result, draw_arg>>
                ELSE \E rv \in RV :
                        /\ a_unit' = draw(rv, norm)
                        /\ draw_arg' = norm
                        /\ consumed' = consumed + population_size + 1
                        /\ accepted' = Accepts(s, a_unit')
                        /\ IF accepted'
                           THEN /\ pc' = "done"
                                /\ result' = Ok(SortInts(Append(s, a_unit')))
                           ELSE UNCHANGED <<pc, result>>
    /\ UNCHANGED <<Inputs, BrewerVars>>

\* The loop ended without an accepted attempt.
SampfordExhausted ==
    /\ fn = "sampford" /\ pc = "loop"
    /\ ~MoreAttempts
    /\ pc' = "done"
    /\ result' = MaxIterationsErr(max_iterations)
    /\ UNCHANGED <<Inputs, consumed, draw_arg, a_unit, SampfordVars, BrewerVars>>

\* ------------------------------------------------------------------ pareto
\* The ranking key of a unit with probability p and variate u.
q_value(u, p) ==
    IF RLt(RSub(One, eps), u) \/ RLt(p, eps) THEN PInf
    ELSE LET res == RDiv(RMul(u, RSub(One, p)), RMul(p, RSub(One, u)))
         IN  IF IsNaN(res) THEN PInf ELSE res

\* sample.sort_by(|&a, &b| q_values[a].partial_cmp(&q_values[b]).unwrap()),
\* a stable sort of the unit ids 0..k-1 by key.
RECURSIVE InsertBy(_, _, _)
InsertBy(s, x, q) ==
    IF s = <<>> THEN <<x>>
    ELSE IF RLt(q[x + 1], q[Head(s) + 1]) THEN <<x>> \o s
    ELSE <<Head(s)>> \o InsertBy(Tail(s), x, q)

RECURSIVE SortByKey(_, _)
SortByKey(k, q) ==
    IF k = 0 THEN <<>> ELSE InsertBy(SortByKey(k - 1, q), k - 1, q)

\* Vec::truncate
Truncate(s, len) == IF len >= Len(s) THEN s ELSE SubSeq(s, 1, len)

\* What pareto returns for the keys q_values.
ParetoSample(q_values, size) == Truncate(SortByKey(Len(q_values), q_values), size)

pareto ==
    /\ fn = "pareto" /\ pc = "call"
    /\ IF ~DesignValid(PVec) THEN Return(InputErr, 0)
       \* key[k][u]: the key of unit k - 1 when its variate is u / D
       ELSE \E size \in {SampleSize(PVec)},
               key \in {[k \in 1..population_size |->
                           [u \in 0..(D - 1) |-> q_value(FromUnits(u), PVec[k])]]} :
               \E us \in [1..population_size -> 0..(D - 1)] :
                  LET q_values == [k \in 1..population_size |-> key[k][us[k]]]
                  IN  Return(Ok(ParetoSample(q_values, size)), population_size)
    /\ UNCHANGED <<Inputs, draw_arg, a_unit, SampfordVars, BrewerVars>>

\* ------------------------------------------------------------------ brewer
\* The pre-pass: units that cannot be selected, and units that must be.
Excluded == {id \in Units : RLe(P(id), eps)}
Forced == {id \in Units : ~RLe(P(id), eps) /\ RLe(RSub(One, eps), P(id))}

BrewerStart ==
    /\ fn = "brewer" /\ pc = "call"
    /\ IF ~DesignValid(PVec)
       THEN Return(InputErr, 0) /\ UNCHANGED BrewerVars
       ELSE IF Cardinality(Forced) > SampleSize(PVec)
       \* sample_size -= 1 below zero
       THEN Return(Panic, 0) /\ UNCHANGED BrewerVars
       ELSE /\ pc' = "loop"
            /\ indices' = Units \ (Excluded \cup Forced)
            /\ sample' = SeqOfSet(Forced)
            /\ n_d' = RSub(sum(PVec), FromInt(Cardinality(Forced)))
            /\ sample_size' = SampleSize(PVec) - Cardinality(Forced)
            /\ step' = 0
            /\ UNCHANGED <<result, consumed, draw_eligible>>
    /\ UNCHANGED <<Inputs, draw_arg, a_unit, SampfordVars>>

\* The number the weight's denominator multiplies p by at step i.
DrawsLeft(size, i) == size - i + 1

\* The unnormalized weight of an eligible unit with probability p.
Weight(p, nd, size, i) ==
    RDiv(RMul(p, RSub(nd, p)), RSub(nd, RMul(p, FromInt(DrawsLeft(size, i)))))

\* q_probs as passed to draw at step i: the normalized weights of the
\* eligible units, 0.0 for every other unit.
q_probs ==
    LET w == [k \in 1..population_size |->
                 IF (k - 1) \in indices
                 THEN Weight(PVec[k], n_d, sample_size, step) ELSE Zero]
        psum == sum(w)
    IN  [k \in 1..population_size |->
            IF (k - 1) \in indices THEN RDiv(w[k], psum) ELSE Zero]

\* Indices::remove (external) fails for an id that is not in the set.
RemoveOk(S, id) == id \in S

\* One iteration of the sequential selection.
BrewerStep ==
    /\ fn = "brewer" /\ pc = "loop"
    /\ step < sample_size
    /\ draw_arg' = q_probs
    /\ consumed' = consumed + 1
    /\ \E rv \in RV :
          /\ a_unit' = draw(rv, draw_arg')
          /\ draw_eligible' = RemoveOk(indices, a_unit')
          /\ IF draw_eligible'
             THEN /\ indices' = indices \ {a_unit'}
                  /\ sample' = Append(sample, a_unit')
                  /\ n_d' = RSub(n_d, P(a_unit'))
                  /\ step' = step + 1
                  /\ UNCHANGED <<pc, result>>
             \* indices.remove(a_unit).unwrap() panics
             ELSE /\ pc' = "done"
                  /\ result' = Panic
                  /\ UNCHANGED <<indices, sample, n_d, step>>
    /\ UNCHANGED <<Inputs, sample_size, SampfordVars>>

\* The loop is over: sort and return.
BrewerFinish ==
    /\ fn = "brewer" /\ pc = "loop"
    /\ step >= sample_size
    /\ pc' = "done"
    /\ result' = Ok(SortInts(sample))
    /\ UNCHANGED <<Inputs, consumed, draw_arg, a_unit, SampfordVars, BrewerVars>>

\* -------------------------------------------------------- deville_variance
powi2(a) == RMul(a, a)

\* The value the deviations are taken around.
Centre(s1mp, del) == RDiv(s1mp, del)

\* What deville_variance computes from valid input.
DevilleValue(ys, ps) ==
    LET len == Len(ys)
        y_pi == [k \in 1..len |-> RDiv(ys[k], ps[k])]
        q == [k \in 1..len |-> RSub(One, ps[k])]
        s1mp == sum(q)
        del == sum([k \in 1..len |-> RMul(y_pi[k], q[k])])
        s1mp_del == Centre(s1mp, del)
        sak2 == RDiv(sum([k \in 1..len |-> powi2(q[k])]), powi2(s1mp))
        dsum == sum([k \in 1..len |-> RMul(powi2(RSub(y_pi[k], s1mp_del)), q[k])])
    IN  RMul(RDiv(One, RSub(One, sak2)), dsum)

YVec == [k \in 1..Len(y_values) |-> FromInt(y_values[k])]

deville_variance ==
    /\ fn = "deville_variance" /\ pc = "call"
    /\ IF ~(check_lengths(y_values, probabilities) /\ Probabilities_check(PVec))
       THEN Return(InputErr, 0)
       ELSE Return(OkValue(DevilleValue(YVec, PVec)), 0)
    /\ UNCHANGED <<Inputs, draw_arg, a_unit, SampfordVars, BrewerVars>>

\* ----------------------------------------------------------- specification
Next ==
    \/ DrawCall
    \/ with_replacement
    \/ SampfordStart
    \/ SampfordAttempt
    \/ SampfordExhausted
    \/ pareto
    \/ BrewerStart
    \/ BrewerStep
    \/ BrewerFinish

\* The sampling designs of unequal.rs.
Spec == Init /\ [][Next]_vars

\* The estimator of horvitz_thompson.rs.
SpecEstimate == InitEstimate /\ [][deville_variance]_vars

\* ------------------------------------------------------------------ claims
Designs == {"sampford", "pareto", "brewer"}
Returned == pc = "done" /\ result.kind = "ok"

\* Validity of the input stated on the grid units, independently of the
\* validation the functions perform: eps is one and a half units.
InRange == \A k \in 1..population_size : probabilities[k] \in 0..D
NearestMultiple(u) == ((2 * u + D) \div (2 * D)) * D
SumIsInteger == 2 * Abs(SumUnits(probabilities) - NearestMultiple(SumUnits(probabilities))) < 3
SumIsOne == 2 * Abs(SumUnits(probabilities) - D) < 3
InvalidInput ==
    \/ ~InRange
    \/ fn = "with_replacement" /\ ~SumIsOne
    \/ fn \in Designs /\ ~SumIsInteger

Distinct(s) == \A j, k \in 1..Len(s) : j # k => s[j] # s[k]
Ascending(s) == \A j, k \in 1..Len(s) : j < k => s[j] < s[k]

\* C1: a sample returned by sampford, pareto or brewer has exactly
\* round(sum of probabilities) indices, all distinct and each in 0..N-1.
C1_FixedSizeDistinctInRange ==
    (fn \in Designs /\ Returned) =>
        /\ Len(result.sample) = NearestMultiple(SumUnits(probabilities)) \div D
        /\ Distinct(result.sample)
        /\ Range(result.sample) \subseteq Units

\* An accepted sampford attempt returned a sample of two or more units.
C1_Witness ==
    /\ fn = "sampford" /\ Returned /\ accepted
    /\ Len(result.sample) >= 2
    /\ a_unit \in Range(result.sample)

\* C2: a sample returned by sampford, pareto or brewer is strictly ascending.
C2_ReturnedAscending ==
    (fn \in Designs /\ Returned) => Ascending(result.sample)

\* C3: with_replacement on valid options returns exactly n indices, each in
\* 0..N-1.
C3_ReturnsNIndices ==
    (fn = "with_replacement" /\ pc = "done" /\ ~InvalidInput) =>
        /\ result.kind = "ok"
        /\ Len(result.sample) = n
        /\ Range(result.sample) \subseteq Units

\* C4: sampford makes at most max_iterations attempts; the loop ends with a
\* sample or, after exactly max_iterations rejected attempts, with the
\* MaxIterations error that carries max_iterations.
C4_BoundedAttempts ==
    fn = "sampford" =>
        /\ attempts <= max_iterations
        /\ (pc = "done" /\ attempts > 0 =>
              \/ result.kind = "ok" /\ accepted
              \/ /\ result = MaxIterationsErr(max_iterations)
                 /\ attempts = max_iterations
                 /\ ~accepted)
        /\ (result.kind = "max_iterations" =>
              result.bound = max_iterations /\ attempts = max_iterations)

\* Every attempt of a sampford call with max_iterations >= 2 was rejected.
C4_Witness ==
    /\ fn = "sampford" /\ pc = "done"
    /\ max_iterations >= 2
    /\ attempts = max_iterations
    /\ result.kind = "max_iterations"

\* C5: on invalid input with_replacement, sampford, pareto and brewer return
\* an error and have consumed no variate.
C5_InvalidRejectedBeforeDraw ==
    (fn \in Designs \cup {"with_replacement"} /\ InvalidInput /\ pc # "call") =>
        /\ pc = "done"
        /\ result.kind = "input_error"
        /\ consumed = 0

\* A design rejected a vector whose sum is integral but which has an entry
\* above 1.
C5_Witness ==
    /\ fn \in Designs /\ pc = "done"
    /\ ~InRange /\ SumIsInteger
    /\ result.kind = "input_error"

\* C6: deville_variance takes the deviations of y_i/p_i around their mean
\* weighted by 1-p_i, so when all y_i/p_i are equal and not all p_i are 1 it
\* returns 0.  Stated for the samples on which the correction factor
\* 1/(1 - sum((1-p_i)^2)/(sum(1-p_i))^2) is finite: two or more p_i below 1.
C6_ZeroForConstantRatio ==
    (/\ fn = "deville_variance" /\ Returned
     /\ \A k \in 1..population_size : probabilities[k] > 0
     /\ \E j, k \in 1..population_size :
           j # k /\ probabilities[j] < D /\ probabilities[k] < D
     /\ \A j, k \in 1..population_size :
           y_values[j] * probabilities[k] = y_values[k] * probabilities[j])
    => result.value = Zero

\* C7: an attempt whose Poisson sample has size m-1 is accepted iff the
\* extra unit is not in the Poisson sample.
C7_AcceptedIffAbsent ==
    (/\ fn = "sampford" /\ attempts > 0
     /\ Len(pois) = NearestMultiple(SumUnits(probabilities)) \div D - 1)
    => (accepted <=> a_unit \notin Range(pois))

\* C8: draw on a one-hot vector returns the index of the entry 1.0.
C8_OneHot ==
    (fn = "draw" /\ pc = "done") =>
        \A k \in Units : probabilities[k + 1] = D => result.sample = <<k>>

\* C9: every vector passed to draw by sampford or brewer has entries >= 0
\* that sum to 1 within eps.
C9_DrawPrecondition ==
    (fn \in {"sampford", "brewer"} /\ draw_arg # <<>>) =>
        /\ \A k \in 1..Len(draw_arg) : RLe(Zero, draw_arg[k])
        /\ RLt(RAbs(RSub(sum(draw_arg), One)), eps)

\* C10: every sequential draw of brewer returns a unit that is still
\* eligible, so the removal never fails.
C10_DrawnUnitEligible ==
    fn = "brewer" => draw_eligible /\ result.kind # "panic"

====
